---- MODULE Spec2Model ----
(***************************************************************************)
(* A model of ApacheConfigLexer (src/apacheconfig/lexer.py): the lexer     *)
(* states, the rule regexes, the rule handlers and tokenize.               *)
(*                                                                         *)
(* A text is a sequence of one-character strings.  Offsets are 0-based, as *)
(* in the source: At(s, i) is s[i], Slice(s, a, b) is s[a:b].              *)
(***************************************************************************)
EXTENDS Integers, Sequences, FiniteSets, TLC

VARIABLES lexdata, lexpos, lexstate, lineno, ccomment_level, code_start,
          heredoc_anchor, heredoc_option, lexmatch, tokens, status, error,
          result, calls

vars == <<lexdata, lexpos, lexstate, lineno, ccomment_level, code_start,
          heredoc_anchor, heredoc_option, lexmatch, tokens, status, error,
          result, calls>>

(***************************************************************************)
(* The input texts: one of the Heads (nothing, the start of an option, a   *)
(* here-document opener, a block-comment opener, the start of a tag)       *)
(* followed by at most MaxFrags fragments.                                 *)
(***************************************************************************)
MaxFrags == 3

Heads ==
  { <<>>, <<"a", " ">>, <<"a", " ", "<", "<", "a">>, <<"/", "*">>, <<"<">> }

Frags ==
  { <<"a">>, <<" ">>, <<"\t">>, <<"\n">>, <<"\r">>, <<"\\">>, <<"#">>,
    <<"\"">>, <<"<">>, <<">">>, <<"/">>, <<"/", "*">>, <<"*", "/">> }

RECURSIVE Concat(_)
Concat(fs) == IF fs = <<>> THEN <<>> ELSE Head(fs) \o Concat(Tail(fs))

Texts ==
  { h \o Concat(fs) : h \in Heads, fs \in UNION { [1..n -> Frags] : n \in 0..MaxFrags } }

(***************************************************************************)
(* Strings                                                                 *)
(***************************************************************************)
Min(S) == CHOOSE x \in S : \A y \in S : x <= y
Max(S) == CHOOSE x \in S : \A y \in S : x >= y

At(s, i) == s[i + 1]

Slice(s, a, b) == SubSeq(s, a + 1, IF b < Len(s) THEN b ELSE Len(s))

EndsWith(s, c) == Len(s) > 0 /\ s[Len(s)] = c

StartsWith(s, pre) == Len(s) >= Len(pre) /\ SubSeq(s, 1, Len(pre)) = pre

RECURSIVE Replace(_, _, _)
Replace(s, old, new) ==
  IF Len(s) < Len(old) THEN s
  ELSE IF SubSeq(s, 1, Len(old)) = old
       THEN new \o Replace(SubSeq(s, Len(old) + 1, Len(s)), old, new)
       ELSE <<Head(s)>> \o Replace(Tail(s), old, new)

Whitespace == {" ", "\t", "\n", "\r", "\f"}

RECURSIVE Strip(_)
Strip(s) ==
  IF s = <<>> THEN s
  ELSE IF Head(s) \in Whitespace THEN Strip(Tail(s))
  ELSE IF s[Len(s)] \in Whitespace THEN Strip(SubSeq(s, 1, Len(s) - 1))
  ELSE s

Count(s, c) == Cardinality({ i \in 1..Len(s) : s[i] = c })

(***************************************************************************)
(* Regular expressions.  A regex is a sequence of alternatives, tried in   *)
(* order; an alternative is a sequence of items matched with backtracking: *)
(*   one       one character of the class                                  *)
(*   plus      one or more, greedy                                         *)
(*   star      zero or more, greedy                                        *)
(*   lazyplus  one or more, shortest first                                 *)
(*   notbehind (?<!c): the character before the cursor is not in the set   *)
(* A class is a set of characters, negated when neg is TRUE.               *)
(***************************************************************************)
NoMatch == 0 - 1

Lit(c) == [kind |-> "one", neg |-> FALSE, set |-> {c}]

Plus(S) == [kind |-> "plus", neg |-> FALSE, set |-> S]

PlusNot(S) == [kind |-> "plus", neg |-> TRUE, set |-> S]

StarNot(S) == [kind |-> "star", neg |-> TRUE, set |-> S]

LazyPlusNot(S) == [kind |-> "lazyplus", neg |-> TRUE, set |-> S]

NotBehind(c) == [kind |-> "notbehind", neg |-> FALSE, set |-> {c}]

InClass(it, c) == (c \in it.set) # it.neg

RECURSIVE RunEnd(_, _, _)
RunEnd(s, p, it) ==
  IF p < Len(s) /\ InClass(it, At(s, p)) THEN RunEnd(s, p + 1, it) ELSE p

RECURSIVE MatchFrom(_, _, _, _)
MatchFrom(alt, k, s, p) ==
  IF k > Len(alt) THEN p
  ELSE LET it == alt[k]
           lo == IF it.kind = "star" THEN p ELSE p + 1
           R  == [j \in lo..RunEnd(s, p, it) |-> MatchFrom(alt, k + 1, s, j)]
           J  == { j \in DOMAIN R : R[j] # NoMatch }
       IN  CASE it.kind = "notbehind" ->
                  IF p > 0 /\ At(s, p - 1) \in it.set THEN NoMatch
                  ELSE MatchFrom(alt, k + 1, s, p)
             [] it.kind = "one" ->
                  IF p < Len(s) /\ InClass(it, At(s, p))
                  THEN MatchFrom(alt, k + 1, s, p + 1) ELSE NoMatch
             [] it.kind = "lazyplus" ->
                  IF J = {} THEN NoMatch ELSE R[Min(J)]
             [] OTHER ->
                  IF J = {} THEN NoMatch ELSE R[Max(J)]

RECURSIVE MatchAlt(_, _, _, _)
MatchAlt(re, i, s, p) ==
  IF i > Len(re) THEN NoMatch
  ELSE LET e == MatchFrom(re[i], 1, s, p)
       IN  IF e # NoMatch THEN e ELSE MatchAlt(re, i + 1, s, p)

MatchRe(re, s, p) == MatchAlt(re, 1, s, p)

(***************************************************************************)
(* The rule regexes (the handlers' docstrings; reflags = re.DOTALL).       *)
(***************************************************************************)
Sep == {" ", "\n", "\r", "\t", "="}

re_COMMENT == << <<NotBehind("\\"), Lit("#"), StarNot({"\n", "\r"})>> >>

re_CCOMMENT == << <<Lit("/"), Lit("*")>> >>

re_ccomment_open == << <<Lit("/"), Lit("*")>> >>

re_ccomment_close == << <<Lit("*"), Lit("/")>> >>

re_ccomment_body_nodotall == << <<LazyPlusNot({"\n"})>> >>

re_ccomment_body == << <<LazyPlusNot({})>> >>

re_CLOSE_TAG == << <<Lit("<"), Lit("/"), PlusNot({"\n", "\r", "\t"}), Lit(">")>> >>

re_OPEN_CLOSE_TAG ==
  << <<Lit("<"), PlusNot({"\n", "\r", "\t", "/"}), Lit("/"), Lit(">")>> >>

re_OPEN_TAG == << <<Lit("<"), PlusNot({"\n", "\r", "\t"}), Lit(">")>> >>

re_OPTION_AND_VALUE == << <<PlusNot(Sep), Plus(Sep), PlusNot({"\r", "\n"})>> >>

re_multiline_OPTION_AND_VALUE == << <<PlusNot({"\r", "\n"})>> >>

re_heredoc_OPTION_AND_VALUE == << <<PlusNot({"\r", "\n"})>> >>

re_WHITESPACE == << <<Plus({" ", "\t"})>> >>

re_NEWLINE == << <<Lit("\r"), Lit("\n")>>, <<Lit("\n")>>, <<Lit("\r")>> >>

re_split == << <<Plus(Sep)>> >>

(***************************************************************************)
(* The rules of each lexer state, in the order of the handlers in the      *)
(* class; the three extra states are exclusive.                            *)
(***************************************************************************)
states == {"ccomment", "multiline", "heredoc"}

Rules_open_tag_first(state) ==
  CASE state = "INITIAL" ->
         << [name |-> "t_COMMENT",          re |-> re_COMMENT],
            [name |-> "t_CCOMMENT",         re |-> re_CCOMMENT],
            [name |-> "t_CLOSE_TAG",        re |-> re_CLOSE_TAG],
            [name |-> "t_OPEN_TAG",         re |-> re_OPEN_TAG],
            [name |-> "t_OPEN_CLOSE_TAG",   re |-> re_OPEN_CLOSE_TAG],
            [name |-> "t_OPTION_AND_VALUE", re |-> re_OPTION_AND_VALUE],
            [name |-> "t_WHITESPACE",       re |-> re_WHITESPACE],
            [name |-> "t_NEWLINE",          re |-> re_NEWLINE] >>
    [] state = "ccomment" ->
         << [name |-> "t_ccomment_open",  re |-> re_ccomment_open],
            [name |-> "t_ccomment_close", re |-> re_ccomment_close],
            [name |-> "t_ccomment_body",  re |-> re_ccomment_body] >>
    [] state = "multiline" ->
         << [name |-> "t_multiline_OPTION_AND_VALUE", re |-> re_multiline_OPTION_AND_VALUE],
            [name |-> "t_multiline_NEWLINE",          re |-> re_NEWLINE] >>
    [] state = "heredoc" ->
         << [name |-> "t_heredoc_OPTION_AND_VALUE", re |-> re_heredoc_OPTION_AND_VALUE],
            [name |-> "t_heredoc_NEWLINE",          re |-> re_NEWLINE] >>

Rules(state) ==
  CASE state = "INITIAL" ->
         << [name |-> "t_COMMENT",          re |-> re_COMMENT],
            [name |-> "t_CCOMMENT",         re |-> re_CCOMMENT],
            [name |-> "t_CLOSE_TAG",        re |-> re_CLOSE_TAG],
            [name |-> "t_OPEN_CLOSE_TAG",   re |-> re_OPEN_CLOSE_TAG],
            [name |-> "t_OPEN_TAG",         re |-> re_OPEN_TAG],
            [name |-> "t_OPTION_AND_VALUE", re |-> re_OPTION_AND_VALUE],
            [name |-> "t_WHITESPACE",       re |-> re_WHITESPACE],
            [name |-> "t_NEWLINE",          re |-> re_NEWLINE] >>
    [] state = "ccomment" ->
         << [name |-> "t_ccomment_open",  re |-> re_ccomment_open],
            [name |-> "t_ccomment_close", re |-> re_ccomment_close],
            [name |-> "t_ccomment_body",  re |-> re_ccomment_body] >>
    [] state = "multiline" ->
         << [name |-> "t_multiline_OPTION_AND_VALUE", re |-> re_multiline_OPTION_AND_VALUE],
            [name |-> "t_multiline_NEWLINE",          re |-> re_NEWLINE] >>
    [] state = "heredoc" ->
         << [name |-> "t_heredoc_OPTION_AND_VALUE", re |-> re_heredoc_OPTION_AND_VALUE],
            [name |-> "t_heredoc_NEWLINE",          re |-> re_NEWLINE] >>

(***************************************************************************)
(* One match of the state's rules at the cursor, as engine.token() does    *)
(* it: the rules are tried in order and the first one that matches fires.  *)
(***************************************************************************)
NoRule == ""

LongestMatch(state, s, p) ==
  LET rs   == Rules(state)
      ends == [i \in 1..Len(rs) |-> MatchRe(rs[i].re, s, p)]
      hits == { i \in 1..Len(rs) : ends[i] # NoMatch }
      best == CHOOSE i \in hits :
                \A j \in hits : ends[i] > ends[j] \/ (ends[i] = ends[j] /\ i <= j)
  IN  IF hits = {} THEN [rule |-> NoRule, start |-> p, end |-> p]
      ELSE [rule |-> rs[best].name, start |-> p, end |-> ends[best]]

RECURSIVE FirstMatch(_, _, _, _)
FirstMatch(rs, i, s, p) ==
  IF i > Len(rs) THEN [rule |-> NoRule, start |-> p, end |-> p]
  ELSE LET e == MatchRe(rs[i].re, s, p)
       IN  IF e # NoMatch THEN [rule |-> rs[i].name, start |-> p, end |-> e]
           ELSE FirstMatch(rs, i + 1, s, p)

MasterMatch(state, s, p) == FirstMatch(Rules(state), 1, s, p)

(***************************************************************************)
(* len(re.findall(r'\r\n|\n|\r', s))                                       *)
(***************************************************************************)
RECURSIVE CountNewlinesFrom(_, _)
CountNewlinesFrom(s, p) ==
  IF p >= Len(s) THEN 0
  ELSE LET e == MatchRe(re_NEWLINE, s, p)
       IN  IF e = NoMatch THEN CountNewlinesFrom(s, p + 1)
           ELSE 1 + CountNewlinesFrom(s, e)

CountNewlines(s) == CountNewlinesFrom(s, 0)

(***************************************************************************)
(* _parse_option_value.  exc names the exception it raises, "" for none.   *)
(***************************************************************************)
Parsed(o, v) == [exc |-> "", option |-> o, value |-> v]

ParseRaised(e) == [exc |-> e, option |-> <<>>, value |-> <<>>]

Unquote(value) ==
  LET v1 == IF value[1] = "\"" THEN Tail(value) ELSE value
  IN  IF v1 = <<>> THEN <<"IndexError">>
      ELSE IF v1[Len(v1)] = "\"" THEN <<"", SubSeq(v1, 1, Len(v1) - 1)>> ELSE <<"", v1>>

Unescape_off(value) == value

Unescape(value) ==
  IF \E i \in 1..Len(value) : value[i] = "#"
  THEN Replace(value, <<"\\", "#">>, <<"#">>) ELSE value

_parse_option_value(token) ==
  LET cut == { i \in 0..(Len(token) - 1) : MatchRe(re_split, token, i) # NoMatch }
  IN  IF cut = {} THEN ParseRaised("ValueError")
      ELSE LET i      == Min(cut)
               option == Slice(token, 0, i)
               value  == Slice(token, MatchRe(re_split, token, i), Len(token))
           IN  IF value = <<>> THEN ParseRaised("IndexError")
               ELSE LET u == Unquote(value)
                    IN  IF u[1] # "" THEN ParseRaised(u[1])
                        ELSE Parsed(option, Unescape(u[2]))

(***************************************************************************)
(* Tokens, errors, the state after construction                            *)
(***************************************************************************)
Token(type, value) == [type |-> type, value |-> value]

NoError == [exc |-> "", msg |-> "", ch |-> ""]

NoLexMatch == [rule |-> NoRule, start |-> 0, end |-> 0]

InitialLineno == 1

(* What the caller of tokenize has received: nothing while the call runs   *)
(* and nothing when it raises, the list of token values when it returns.   *)
NoResult == [delivered |-> FALSE, tokens |-> <<>>]

Returned(toks) ==
  [delivered |-> TRUE, tokens |-> [i \in 1..Len(toks) |-> toks[i].value]]

Init ==
  /\ lexdata \in Texts
  /\ lexpos = 0
  /\ lexstate = "INITIAL"
  /\ lineno = InitialLineno
  /\ ccomment_level = 0
  /\ code_start = 0
  /\ heredoc_anchor = <<>>
  /\ heredoc_option = <<>>
  /\ lexmatch = NoLexMatch
  /\ tokens = <<>>
  /\ status = "scanning"
  /\ error = NoError
  /\ result = NoResult
  /\ calls = 1

(***************************************************************************)
(* engine.token(): the rule that fires at the cursor, and what every       *)
(* handler shares: the cursor moves to the end of the match before the     *)
(* handler runs.                                                           *)
(***************************************************************************)
Cur == MasterMatch(lexstate, lexdata, lexpos)

Scanning(state) ==
  /\ status = "scanning"
  /\ lexstate = state
  /\ lexpos < Len(lexdata)

Fires(rule, m) ==
  /\ m.rule = rule
  /\ lexmatch' = m
  /\ lexpos' = m.end
  /\ UNCHANGED lexdata

Value(m) == Slice(lexdata, m.start, m.end)

Emit_prepend(type, value) ==
  /\ tokens' = <<Token(type, value)>> \o tokens
  /\ UNCHANGED <<status, error, result, calls>>

Emit(type, value) ==
  /\ tokens' = Append(tokens, Token(type, value))
  /\ UNCHANGED <<status, error, result, calls>>

Skip == UNCHANGED <<tokens, status, error, result, calls>>

Raise(exc, msg, ch) ==
  /\ status' = "raised"
  /\ error' = [exc |-> exc, msg |-> msg, ch |-> ch]
  /\ UNCHANGED <<tokens, result, calls>>

(***************************************************************************)
(* The handlers                                                            *)
(***************************************************************************)
t_COMMENT ==
  /\ Scanning("INITIAL")
  /\ LET m == Cur
     IN  /\ Fires("t_COMMENT", m)
         /\ Emit("COMMENT", Tail(Value(m)))
         /\ UNCHANGED <<lexstate, lineno, ccomment_level, code_start, heredoc_anchor, heredoc_option>>

t_CCOMMENT ==
  /\ Scanning("INITIAL")
  /\ LET m == Cur
     IN  /\ Fires("t_CCOMMENT", m)
         /\ code_start' = m.end
         /\ ccomment_level' = 1
         /\ lexstate' = "ccomment"
         /\ Skip
         /\ UNCHANGED <<lineno, heredoc_anchor, heredoc_option>>

t_ccomment_open_flat ==
  /\ Scanning("ccomment")
  /\ LET m == Cur
     IN  /\ Fires("t_ccomment_open", m)
         /\ Skip
         /\ UNCHANGED <<lexstate, lineno, ccomment_level, code_start, heredoc_anchor,
                        heredoc_option>>

t_ccomment_open ==
  /\ Scanning("ccomment")
  /\ LET m == Cur
     IN  /\ Fires("t_ccomment_open", m)
         /\ ccomment_level' = ccomment_level + 1
         /\ Skip
         /\ UNCHANGED <<lexstate, lineno, code_start, heredoc_anchor, heredoc_option>>

ccomment_value(m) == Slice(lexdata, code_start, m.end + 1)

t_ccomment_close ==
  /\ Scanning("ccomment")
  /\ LET m == Cur
     IN  /\ Fires("t_ccomment_close", m)
         /\ ccomment_level' = ccomment_level - 1
         /\ IF ccomment_level - 1 = 0
            THEN /\ Emit("CCOMMENT", ccomment_value(m))
                 /\ lineno' = lineno + Count(ccomment_value(m), "\n")
                 /\ lexstate' = "INITIAL"
            ELSE /\ Skip
                 /\ UNCHANGED <<lexstate, lineno>>
         /\ UNCHANGED <<code_start, heredoc_anchor, heredoc_option>>

t_ccomment_body_empty ==
  /\ Scanning("ccomment")
  /\ Cur.rule = "t_ccomment_body"
  /\ lexmatch' = [rule |-> "t_ccomment_body", start |-> lexpos, end |-> lexpos]
  /\ Skip
  /\ UNCHANGED <<lexdata, lexpos, lexstate, lineno, ccomment_level, code_start,
                 heredoc_anchor, heredoc_option>>

t_ccomment_body ==
  /\ Scanning("ccomment")
  /\ LET m == Cur
     IN  /\ Fires("t_ccomment_body", m)
         /\ Skip
         /\ UNCHANGED <<lexstate, lineno, ccomment_level, code_start, heredoc_anchor, heredoc_option>>

t_CLOSE_TAG ==
  /\ Scanning("INITIAL")
  /\ LET m == Cur
     IN  /\ Fires("t_CLOSE_TAG", m)
         /\ Emit("CLOSE_TAG", Slice(Value(m), 2, Len(Value(m)) - 1))
         /\ UNCHANGED <<lexstate, lineno, ccomment_level, code_start, heredoc_anchor, heredoc_option>>

t_OPEN_CLOSE_TAG ==
  /\ Scanning("INITIAL")
  /\ LET m == Cur
     IN  /\ Fires("t_OPEN_CLOSE_TAG", m)
         /\ Emit("OPEN_CLOSE_TAG", Slice(Value(m), 1, Len(Value(m)) - 2))
         /\ UNCHANGED <<lexstate, lineno, ccomment_level, code_start, heredoc_anchor, heredoc_option>>

t_OPEN_TAG ==
  /\ Scanning("INITIAL")
  /\ LET m == Cur
     IN  /\ Fires("t_OPEN_TAG", m)
         /\ Emit("OPEN_TAG", Slice(Value(m), 1, Len(Value(m)) - 1))
         /\ UNCHANGED <<lexstate, lineno, ccomment_level, code_start, heredoc_anchor, heredoc_option>>

t_OPTION_AND_VALUE ==
  /\ Scanning("INITIAL")
  /\ LET m == Cur
     IN  /\ Fires("t_OPTION_AND_VALUE", m)
         /\ UNCHANGED ccomment_level
         /\ IF EndsWith(Value(m), "\\")
            THEN /\ code_start' = m.end - Len(Value(m))
                 /\ lexstate' = "multiline"
                 /\ Skip
                 /\ UNCHANGED <<lineno, heredoc_anchor, heredoc_option>>
            ELSE LET pv == _parse_option_value(Value(m))
                 IN  IF pv.exc # ""
                     THEN /\ Raise(pv.exc, "", "")
                          /\ UNCHANGED <<lexstate, lineno, code_start, heredoc_anchor, heredoc_option>>
                     ELSE IF StartsWith(pv.value, <<"<", "<">>)
                     THEN /\ heredoc_anchor' = Strip(Slice(pv.value, 2, Len(pv.value)))
                          /\ heredoc_option' = pv.option
                          /\ code_start' = m.end
                          /\ lexstate' = "heredoc"
                          /\ Skip
                          /\ UNCHANGED lineno
                     ELSE /\ Emit("OPTION_AND_VALUE", <<pv.option, pv.value>>)
                          /\ lineno' = lineno + CountNewlines(Value(m))
                          /\ UNCHANGED <<lexstate, code_start, heredoc_anchor, heredoc_option>>

multiline_raw(m) == Slice(lexdata, code_start, m.end + 1)

multiline_join(value) ==
  Replace(Replace(Replace(value, <<"\\", "\n">>, <<>>), <<"\r">>, <<>>), <<"\n">>, <<>>)

t_multiline_OPTION_AND_VALUE_stay ==
  /\ Scanning("multiline")
  /\ LET m == Cur
     IN  /\ Fires("t_multiline_OPTION_AND_VALUE", m)
         /\ UNCHANGED <<ccomment_level, code_start, heredoc_anchor, heredoc_option>>
         /\ IF EndsWith(Value(m), "\\")
            THEN /\ Skip
                 /\ UNCHANGED <<lexstate, lineno>>
            ELSE LET pv == _parse_option_value(multiline_join(multiline_raw(m)))
                 IN  /\ UNCHANGED lexstate
                     /\ lineno' = lineno + CountNewlines(multiline_raw(m))
                     /\ IF pv.exc # ""
                        THEN Raise(pv.exc, "", "")
                        ELSE Emit("OPTION_AND_VALUE", <<pv.option, pv.value>>)

t_multiline_OPTION_AND_VALUE ==
  /\ Scanning("multiline")
  /\ LET m == Cur
     IN  /\ Fires("t_multiline_OPTION_AND_VALUE", m)
         /\ UNCHANGED <<ccomment_level, code_start, heredoc_anchor, heredoc_option>>
         /\ IF EndsWith(Value(m), "\\")
            THEN /\ Skip
                 /\ UNCHANGED <<lexstate, lineno>>
            ELSE LET pv == _parse_option_value(multiline_join(multiline_raw(m)))
                 IN  /\ lexstate' = "INITIAL"
                     /\ lineno' = lineno + CountNewlines(multiline_raw(m))
                     /\ IF pv.exc # ""
                        THEN Raise(pv.exc, "", "")
                        ELSE Emit("OPTION_AND_VALUE", <<pv.option, pv.value>>)

t_multiline_NEWLINE ==
  /\ Scanning("multiline")
  /\ LET m == Cur
     IN  /\ Fires("t_multiline_NEWLINE", m)
         /\ lineno' = lineno + 1
         /\ Skip
         /\ UNCHANGED <<lexstate, ccomment_level, code_start, heredoc_anchor, heredoc_option>>

heredoc_value(m) == Slice(lexdata, code_start + 1, m.end - Len(heredoc_anchor))

t_heredoc_OPTION_AND_VALUE ==
  /\ Scanning("heredoc")
  /\ LET m == Cur
     IN  /\ Fires("t_heredoc_OPTION_AND_VALUE", m)
         /\ UNCHANGED <<ccomment_level, code_start, heredoc_anchor, heredoc_option>>
         /\ IF Value(m) # heredoc_anchor
            THEN /\ Skip
                 /\ UNCHANGED <<lexstate, lineno>>
            ELSE /\ lexstate' = "INITIAL"
                 /\ lineno' = lineno + CountNewlines(Value(m))
                 /\ Emit("OPTION_AND_VALUE", <<heredoc_option, heredoc_value(m)>>)

t_heredoc_NEWLINE ==
  /\ Scanning("heredoc")
  /\ LET m == Cur
     IN  /\ Fires("t_heredoc_NEWLINE", m)
         /\ lineno' = lineno + 1
         /\ Skip
         /\ UNCHANGED <<lexstate, ccomment_level, code_start, heredoc_anchor, heredoc_option>>

t_WHITESPACE ==
  /\ Scanning("INITIAL")
  /\ LET m == Cur
     IN  /\ Fires("t_WHITESPACE", m)
         /\ Skip
         /\ UNCHANGED <<lexstate, lineno, ccomment_level, code_start, heredoc_anchor, heredoc_option>>

t_NEWLINE ==
  /\ Scanning("INITIAL")
  /\ LET m == Cur
     IN  /\ Fires("t_NEWLINE", m)
         /\ lineno' = lineno + 1
         /\ Skip
         /\ UNCHANGED <<lexstate, ccomment_level, code_start, heredoc_anchor, heredoc_option>>

(***************************************************************************)
(* No rule of the active state matches at the cursor: the state's error    *)
(* handler raises ApacheConfigError naming the character at the cursor.    *)
(***************************************************************************)
ErrorMessage(state) ==
  CASE state = "INITIAL"   -> "Illegal character '%s'"
    [] state = "ccomment"  -> "Illegal character '%s' in C-style comment"
    [] state = "multiline" -> "Illegal character '%s' in multiline text"
    [] state = "heredoc"   -> "Illegal character '%s' in here-document text"

t_error_skip ==
  /\ status = "scanning"
  /\ lexpos < Len(lexdata)
  /\ Cur.rule = NoRule
  /\ lexpos' = lexpos + 1
  /\ Skip
  /\ UNCHANGED <<lexdata, lexstate, lineno, ccomment_level, code_start,
                 heredoc_anchor, heredoc_option, lexmatch>>

t_error ==
  /\ status = "scanning"
  /\ lexpos < Len(lexdata)
  /\ Cur.rule = NoRule
  /\ Raise("ApacheConfigError", ErrorMessage(lexstate), At(lexdata, lexpos))
  /\ UNCHANGED <<lexdata, lexpos, lexstate, lineno, ccomment_level, code_start,
                 heredoc_anchor, heredoc_option, lexmatch>>

(***************************************************************************)
(* tokenize: engine.token() returns None at the end of the input, in any   *)
(* lexer state, and tokenize returns the tokens collected.                 *)
(***************************************************************************)
tokenize_return ==
  /\ status = "scanning"
  /\ lexpos >= Len(lexdata)
  /\ status' = "returned"
  /\ result' = Returned(tokens)
  /\ UNCHANGED <<lexdata, lexpos, lexstate, lineno, ccomment_level, code_start,
                 heredoc_anchor, heredoc_option, lexmatch, tokens, error, calls>>

Next ==
  \/ t_COMMENT
  \/ t_CCOMMENT
  \/ t_ccomment_open
  \/ t_ccomment_close
  \/ t_ccomment_body
  \/ t_CLOSE_TAG
  \/ t_OPEN_CLOSE_TAG
  \/ t_OPEN_TAG
  \/ t_OPTION_AND_VALUE
  \/ t_multiline_OPTION_AND_VALUE
  \/ t_multiline_NEWLINE
  \/ t_heredoc_OPTION_AND_VALUE
  \/ t_heredoc_NEWLINE
  \/ t_WHITESPACE
  \/ t_NEWLINE
  \/ t_error
  \/ tokenize_return

Spec == Init /\ [][Next]_vars

(***************************************************************************)
(* One lexer instance used for several tokenize calls.  reset() is called  *)
(* by the constructor only; a later tokenize(text) hands the engine the    *)
(* new text, which puts the cursor back to 0, and starts a new local list. *)
(* Nothing else of the engine or of the handlers' fields is touched.       *)
(***************************************************************************)
MaxCalls == 2

ReuseTexts ==
  { <<"#">>, <<"/", "*">>, <<"*", "/">>, <<"<", "/", "a", ">">>,
    <<"<", "a", "/", ">">>, <<"<", "a", ">">>, <<"a", " ", "a">>,
    <<"a", " ", "\\">>, <<"a", " ", "<", "<", "a">>, <<"a">>, <<"\n">>,
    <<" ">> }

tokenize_again ==
  /\ status \in {"returned", "raised"}
  /\ calls < MaxCalls
  /\ lexdata' \in ReuseTexts
  /\ lexpos' = 0
  /\ tokens' = <<>>
  /\ status' = "scanning"
  /\ error' = NoError
  /\ result' = NoResult
  /\ calls' = calls + 1
  /\ UNCHANGED <<lexstate, lineno, ccomment_level, code_start,
                 heredoc_anchor, heredoc_option, lexmatch>>

InitReuse ==
  /\ lexdata \in ReuseTexts
  /\ lexpos = 0
  /\ lexstate = "INITIAL"
  /\ lineno = InitialLineno
  /\ ccomment_level = 0
  /\ code_start = 0
  /\ heredoc_anchor = <<>>
  /\ heredoc_option = <<>>
  /\ lexmatch = NoLexMatch
  /\ tokens = <<>>
  /\ status = "scanning"
  /\ error = NoError
  /\ result = NoResult
  /\ calls = 1

NextReuse ==
  \/ Next
  \/ tokenize_again

SpecReuse == InitReuse /\ [][NextReuse]_vars

(***************************************************************************)
(* The loop of tokenize calls engine.token() again as long as it got a     *)
(* token and nothing was raised: a call that has not finished keeps taking *)
(* steps.  This is weak fairness of Next with its enabling condition, the  *)
(* call still scanning, written out; a step that changes the state is a    *)
(* step of Next.                                                           *)
(***************************************************************************)
SpecLive ==
  Spec /\ ([]<>(status # "scanning") \/ []<><<status = "scanning">>_vars)

(***************************************************************************)
(* What the properties below read off a state                              *)
(***************************************************************************)
Last(q) == q[Len(q)]

LookingAt(s, p, w) == Slice(s, p, p + Len(w)) = w

Stepped == lexpos' # lexpos

Emitted == status # "raised" /\ tokens # <<>>

InitialRules == { Rules("INITIAL")[i].name : i \in 1..Len(Rules("INITIAL")) }

(***************************************************************************)
(* C1.  Block-comment nesting.  Whenever the lexer is in ccomment the      *)
(* depth is at least 1.  A step at "/*" in INITIAL enters ccomment with    *)
(* depth 1 and emits nothing.  A step in ccomment adds 1 to the depth at   *)
(* "/*", subtracts 1 at "*/" and leaves it alone elsewhere; when the new   *)
(* depth is 0 the step appends exactly one CCOMMENT token and returns to   *)
(* INITIAL, otherwise it emits nothing and stays in ccomment.              *)
(***************************************************************************)
C1_Step ==
  /\ (lexstate = "INITIAL" /\ LookingAt(lexdata, lexpos, <<"/", "*">>) /\ Stepped)
       => lexstate' = "ccomment" /\ ccomment_level' = 1 /\ tokens' = tokens
  /\ (lexstate = "ccomment" /\ Stepped)
       => LET d == IF LookingAt(lexdata, lexpos, <<"/", "*">>) THEN ccomment_level + 1
                   ELSE IF LookingAt(lexdata, lexpos, <<"*", "/">>) THEN ccomment_level - 1
                   ELSE ccomment_level
          IN  /\ ccomment_level' = d
              /\ IF d = 0
                 THEN /\ lexstate' = "INITIAL"
                      /\ Len(tokens') = Len(tokens) + 1
                      /\ SubSeq(tokens', 1, Len(tokens)) = tokens
                      /\ Last(tokens').type = "CCOMMENT"
                 ELSE lexstate' = "ccomment" /\ tokens' = tokens

C1_BlockCommentNesting ==
  /\ [](lexstate = "ccomment" => ccomment_level >= 1)
  /\ [][C1_Step]_vars

C1_NestedCommentClosed ==
  /\ LookingAt(lexdata, 0, <<"/", "*", "/", "*">>)
  /\ lexmatch.rule = "t_ccomment_close"
  /\ lexstate = "INITIAL"
  /\ ccomment_level = 0
  /\ Len(tokens) = 1
  /\ tokens[1].type = "CCOMMENT"

(***************************************************************************)
(* C2.  The value of a CCOMMENT token is the source text from the opening  *)
(* "/*" of the outermost comment through its closing "*/", and no more.    *)
(***************************************************************************)
C2_CommentTextVerbatim ==
  (lexmatch.rule = "t_ccomment_close" /\ ccomment_level = 0 /\ Emitted)
    => Last(tokens).value = Slice(lexdata, code_start - 2, lexmatch.end)

(***************************************************************************)
(* C3.  tokenize never returns normally when the input ends inside a block *)
(* comment.                                                                *)
(***************************************************************************)
C3_UnterminatedBlockCommentFails ==
  status = "returned" => lexstate # "ccomment"

(***************************************************************************)
(* C4.  tokenize never returns normally when the input ends inside a       *)
(* here-document.                                                          *)
(***************************************************************************)
C4_UnterminatedHeredocFails ==
  (status = "returned" /\ heredoc_anchor # <<>>) => lexstate # "heredoc"

(***************************************************************************)
(* C5.  After a text is fully tokenized the line counter has advanced by   *)
(* exactly the number of line terminators of the text.                     *)
(***************************************************************************)
C5_LineCounter ==
  (status = "returned" /\ lexstate = "INITIAL")
    => lineno - InitialLineno = CountNewlines(lexdata)

RECURSIVE DropContinuations(_)
DropContinuations(s) ==
  IF s = <<>> THEN <<>>
  ELSE IF Head(s) = "\\" /\ MatchRe(re_NEWLINE, s, 1) # NoMatch
       THEN DropContinuations(Slice(s, MatchRe(re_NEWLINE, s, 1), Len(s)))
       ELSE <<Head(s)>> \o DropContinuations(Tail(s))

JoinedLine(s) == Replace(Replace(DropContinuations(s), <<"\r">>, <<>>), <<"\n">>, <<>>)

C7_ContinuationJoin ==
  (lexmatch.rule = "t_multiline_OPTION_AND_VALUE" /\ lexstate = "INITIAL" /\ Emitted)
    => LET pv == _parse_option_value(JoinedLine(Slice(lexdata, code_start, lexmatch.end)))
       IN  pv.exc = "" => Last(tokens).value = <<pv.option, pv.value>>

(***************************************************************************)
(* C8.  The token emitted at the anchor line of a here-document is the     *)
(* recorded option name with the source text from immediately after the    *)
(* opener line's terminator (LF, CR or CRLF) up to the start of the anchor *)
(* line.                                                                   *)
(***************************************************************************)
C8_HeredocBody ==
  (lexmatch.rule = "t_heredoc_OPTION_AND_VALUE" /\ lexstate = "INITIAL" /\ Emitted)
    => Last(tokens).value =
         <<heredoc_option,
           Slice(lexdata, MatchRe(re_NEWLINE, lexdata, code_start), lexmatch.start)>>

(***************************************************************************)
(* C9.  On a raw text name + separator run + rest, rest not empty, the     *)
(* parser does not fail and returns the name and the rest with one leading *)
(* quote dropped if present, then one trailing quote dropped if present,   *)
(* then every \# replaced by #.                                            *)
(***************************************************************************)
ClaimedValue(rest) ==
  LET v1 == IF rest # <<>> /\ Head(rest) = "\"" THEN Tail(rest) ELSE rest
      v2 == IF v1 # <<>> /\ Last(v1) = "\"" THEN SubSeq(v1, 1, Len(v1) - 1) ELSE v1
  IN  Replace(v2, <<"\\", "#">>, <<"#">>)

C9_ValueParser ==
  LET raw   == Slice(lexdata, lexmatch.start, lexmatch.end)
      nameE == RunEnd(raw, 0, PlusNot(Sep))
      rest  == Slice(raw, RunEnd(raw, nameE, Plus(Sep)), Len(raw))
  IN  (lexmatch.rule = "t_OPTION_AND_VALUE" /\ ~EndsWith(raw, "\\") /\ rest # <<>>)
        => /\ error.exc \notin {"IndexError", "ValueError"}
           /\ (lexstate = "INITIAL" /\ tokens # <<>>)
                => Last(tokens).value = <<Slice(raw, 0, nameE), ClaimedValue(rest)>>

(***************************************************************************)
(* C10.  The lexer state is one of the four states.  A step taken in a     *)
(* state other than INITIAL is a match of one of that state's own rules;   *)
(* if it emits, it appends exactly one token, CCOMMENT from ccomment and   *)
(* OPTION_AND_VALUE from multiline or heredoc, and returns to INITIAL.     *)
(***************************************************************************)
C10_Step ==
  /\ (lexstate # "INITIAL" /\ Stepped)
       => lexmatch'.rule \in { Rules(lexstate)[i].name : i \in 1..Len(Rules(lexstate)) }
  /\ (lexstate # "INITIAL" /\ tokens' # tokens)
       => /\ Len(tokens') = Len(tokens) + 1
          /\ SubSeq(tokens', 1, Len(tokens)) = tokens
          /\ Last(tokens').type =
               IF lexstate = "ccomment" THEN "CCOMMENT" ELSE "OPTION_AND_VALUE"
          /\ lexstate' = "INITIAL"

C10_StateExclusivity ==
  /\ [](lexstate \in {"INITIAL"} \cup states)
  /\ [][C10_Step]_vars

C10_CommentLookingLineInHeredoc ==
  /\ lexmatch.rule = "t_heredoc_OPTION_AND_VALUE"
  /\ lexstate = "heredoc"
  /\ LookingAt(lexdata, lexmatch.start, <<"#">>)

(***************************************************************************)
(* C11.  When the cursor of a running tokenize is in INITIAL at a          *)
(* character where no INITIAL rule matches, the next step raises           *)
(* ApacheConfigError "Illegal character" naming the character at the       *)
(* cursor and leaves the cursor where it is.  A call that has raised takes *)
(* no further step and has delivered nothing to its caller, whatever it    *)
(* had scanned before.                                                     *)
(***************************************************************************)
NoRuleMatches(state, s, p) ==
  \A i \in 1..Len(Rules(state)) : MatchRe(Rules(state)[i].re, s, p) = NoMatch

C11_Step ==
  /\ (/\ status = "scanning"
      /\ lexstate = "INITIAL"
      /\ lexpos < Len(lexdata)
      /\ NoRuleMatches("INITIAL", lexdata, lexpos))
       => /\ status' = "raised"
          /\ error' = [exc |-> "ApacheConfigError",
                       msg |-> "Illegal character '%s'",
                       ch  |-> At(lexdata, lexpos)]
          /\ lexpos' = lexpos
          /\ result' = NoResult
  /\ status = "raised" => UNCHANGED vars

C11_IllegalCharacter ==
  /\ [](status = "raised" => result = NoResult)
  /\ [][C11_Step]_vars

C11_RaisedAfterTokens ==
  /\ status = "raised"
  /\ error.exc = "ApacheConfigError"
  /\ error.ch = At(lexdata, lexpos)
  /\ lexpos > 0
  /\ tokens # <<>>
  /\ result = NoResult

(***************************************************************************)
(* C12.  Every tokenize call on an instance starts in INITIAL with depth   *)
(* 0, with no here-document pending and with the line counter at its       *)
(* initial value, however the previous call on the instance ended.         *)
(***************************************************************************)
C12_FreshScanContext ==
  (status = "scanning" /\ lexpos = 0)
    => /\ lexstate = "INITIAL"
       /\ ccomment_level = 0
       /\ heredoc_anchor = <<>>
       /\ lineno = InitialLineno

(***************************************************************************)
(* C13.  The cursor moves only by a rule match, which starts at the cursor *)
(* and ends at least one character further, so the cursor never moves      *)
(* back and the matches consume disjoint regions of increasing offsets.  A *)
(* token is appended, at the end of the list, only by such a match, and    *)
(* the list returned is the values of the tokens in the order emitted.     *)
(***************************************************************************)
C13_Step ==
  /\ lexpos' >= lexpos
  /\ Stepped => lexmatch' # lexmatch
  /\ lexmatch' # lexmatch
       => /\ lexmatch'.start = lexpos
          /\ lexmatch'.end = lexpos'
          /\ lexpos' >= lexpos + 1
  /\ tokens' # tokens
       => /\ lexmatch' # lexmatch
          /\ Len(tokens') = Len(tokens) + 1
          /\ \A i \in 1..Len(tokens) : tokens'[i].type = tokens[i].type
          /\ SubSeq(tokens', 1, Len(tokens)) = tokens
  /\ result' # result
       => /\ tokens' = tokens
          /\ result'.delivered
          /\ Len(result'.tokens) = Len(tokens)
          /\ \A i \in 1..Len(tokens) : result'.tokens[i] = tokens[i].value

C13_SourceOrder ==
  /\ [](lexmatch.rule # NoRule
         => lexmatch.start < lexmatch.end /\ lexmatch.end = lexpos)
  /\ [](lexpos <= Len(lexdata))
  /\ [][C13_Step]_vars

C13_SeveralTokensReturned ==
  /\ status = "returned"
  /\ result.delivered
  /\ Len(result.tokens) >= 2
  /\ tokens[1].type # tokens[2].type

(***************************************************************************)
(* C14.  Every tokenize call finishes: it returns or it raises.  Every     *)
(* step of an unfinished call either finishes it or is the match of a rule *)
(* of the lexer state that starts at the cursor and consumes at least one  *)
(* character of the text, and the cursor never passes the end of the text, *)
(* so a call on a text of n characters takes at most n + 1 steps.          *)
(***************************************************************************)
RuleNames(state) == { Rules(state)[i].name : i \in 1..Len(Rules(state)) }

C14_Step ==
  status = "scanning"
    => \/ status' # "scanning" /\ lexpos' = lexpos
       \/ /\ lexmatch'.rule \in RuleNames(lexstate)
          /\ lexmatch'.start = lexpos
          /\ lexmatch'.end = lexpos'
          /\ lexpos' > lexpos

C14_Termination ==
  /\ <>(status \in {"returned", "raised"})
  /\ [](lexpos <= Len(lexdata))
  /\ [][C14_Step]_vars

C14_FinishedInsideComment ==
  /\ status = "returned"
  /\ lexmatch.rule = "t_ccomment_body"
  /\ lexpos = Len(lexdata)
  /\ Len(lexdata) >= 5

(***************************************************************************)
(* C15.  With the INITIAL cursor at "<": a text "</" name ">" fires        *)
(* CLOSE_TAG, otherwise a text "<" name "/>" whose name has no "/" fires   *)
(* OPEN_CLOSE_TAG, otherwise a text "<" name ">" fires OPEN_TAG; name is   *)
(* not empty and has no LF, CR or tab, and the closing ">" is the last one *)
(* the name's characters allow.  The token's value is the name: the text   *)
(* between the delimiters.  No tag rule fires on any other text.           *)
(***************************************************************************)
TagStop == {"\n", "\r", "\t"}

LastGt(s, a, b) ==
  LET G == { j \in a..(b - 1) : At(s, j) = ">" }
  IN  IF G = {} THEN NoMatch ELSE Max(G)

CloseTagEnd(s, p) ==
  IF LookingAt(s, p, <<"<", "/">>)
  THEN LastGt(s, p + 3, RunEnd(s, p + 2, PlusNot(TagStop)))
  ELSE NoMatch

OpenCloseTagEnd(s, p) ==
  LET q == RunEnd(s, p + 1, PlusNot(TagStop \cup {"/"}))
  IN  IF q > p + 1 /\ LookingAt(s, q, <<"/", ">">>) THEN q ELSE NoMatch

OpenTagEnd(s, p) == LastGt(s, p + 2, RunEnd(s, p + 1, PlusNot(TagStop)))

TagAt(s, p) ==
  IF CloseTagEnd(s, p) # NoMatch
  THEN [rule |-> "t_CLOSE_TAG", type |-> "CLOSE_TAG",
        name |-> Slice(s, p + 2, CloseTagEnd(s, p)), end |-> CloseTagEnd(s, p) + 1]
  ELSE IF OpenCloseTagEnd(s, p) # NoMatch
  THEN [rule |-> "t_OPEN_CLOSE_TAG", type |-> "OPEN_CLOSE_TAG",
        name |-> Slice(s, p + 1, OpenCloseTagEnd(s, p)), end |-> OpenCloseTagEnd(s, p) + 2]
  ELSE IF OpenTagEnd(s, p) # NoMatch
  THEN [rule |-> "t_OPEN_TAG", type |-> "OPEN_TAG",
        name |-> Slice(s, p + 1, OpenTagEnd(s, p)), end |-> OpenTagEnd(s, p) + 1]
  ELSE [rule |-> NoRule, type |-> "", name |-> <<>>, end |-> p]

TagRules == {"t_CLOSE_TAG", "t_OPEN_CLOSE_TAG", "t_OPEN_TAG"}

C15_TagRules ==
  /\ (lexmatch.rule \in InitialRules /\ At(lexdata, lexmatch.start) = "<")
       => LET tag == TagAt(lexdata, lexmatch.start)
          IN  IF tag.rule = NoRule THEN lexmatch.rule \notin TagRules
              ELSE /\ lexmatch.rule = tag.rule
                   /\ lexmatch.end = tag.end
                   /\ tokens # <<>>
                   /\ Last(tokens) = Token(tag.type, tag.name)
                   /\ tag.name # <<>>
                   /\ \A i \in 1..Len(tag.name) : tag.name[i] \notin TagStop
  /\ lexmatch.rule \in TagRules => At(lexdata, lexmatch.start) = "<"
  /\ (status = "raised" /\ error.exc = "ApacheConfigError" /\ error.ch = "<")
       => TagAt(lexdata, lexpos).rule = NoRule

C15_OpenCloseTagFired ==
  /\ lexmatch.rule = "t_OPEN_CLOSE_TAG"
  /\ LookingAt(lexdata, lexmatch.start, <<"<", "a", "/", ">">>)
  /\ Last(tokens) = Token("OPEN_CLOSE_TAG", <<"a">>)
  /\ Len(tokens) = 1

(***************************************************************************)
(* C16.  As claimed: a source line "a " followed by a value written with   *)
(* each # escaped as \# tokenizes to the one OPTION_AND_VALUE token        *)
(* (a, value), for any value that contains a #.  (Escaping the result      *)
(* again gives the same source line, hence the same token.)                *)
(***************************************************************************)
Escape(v) == Replace(v, <<"#">>, <<"\\", "#">>)

Written(s) == Replace(Slice(s, 2, Len(s)), <<"\\", "#">>, <<"#">>)

EscapedSource(s) ==
  /\ StartsWith(s, <<"a", " ">>)
  /\ \E i \in 1..Len(Written(s)) : Written(s)[i] = "#"
  /\ s = <<"a", " ">> \o Escape(Written(s))

YieldsOption(name, v) ==
  /\ status = "returned"
  /\ Len(tokens) = 1
  /\ tokens[1].type = "OPTION_AND_VALUE"
  /\ tokens[1].value = <<name, v>>
  /\ Len(result.tokens) = 1
  /\ result.tokens[1] = <<name, v>>

C16_EscapeRoundTrip ==
  (EscapedSource(lexdata) /\ status # "scanning")
    => YieldsOption(<<"a">>, Written(lexdata))

(***************************************************************************)
(* C16, amended.  The same, for a value that contains a #, has no LF or    *)
(* CR, does not begin with a separator character, a double quote or "<<",  *)
(* and does not end with a double quote or a backslash.                    *)
(***************************************************************************)
PlainValue(v) ==
  /\ v # <<>>
  /\ \A i \in 1..Len(v) : v[i] \notin {"\n", "\r"}
  /\ Head(v) \notin Sep \cup {"\""}
  /\ ~StartsWith(v, <<"<", "<">>)
  /\ Last(v) \notin {"\"", "\\"}

C16_EscapeRoundTripPlain ==
  (EscapedSource(lexdata) /\ PlainValue(Written(lexdata)) /\ status # "scanning")
    => YieldsOption(<<"a">>, Written(lexdata))

C16_EscapedHashReturned ==
  /\ EscapedSource(lexdata)
  /\ PlainValue(Written(lexdata))
  /\ Len(Written(lexdata)) >= 2
  /\ YieldsOption(<<"a">>, Written(lexdata))

(***************************************************************************)
(* C17.  On a text with no block comment, no continuation and no           *)
(* here-document (here: no "/*", no backslash and no "<<" anywhere) that   *)
(* tokenizes, the tokens other than COMMENT are as many as the lines that  *)
(* are neither blank nor a comment: each such line yields one token and no *)
(* token takes two lines.                                                  *)
(***************************************************************************)
Occurs(s, w) == \E p \in 0..(Len(s) - Len(w)) : LookingAt(s, p, w)

PlainText(s) ==
  /\ ~Occurs(s, <<"/", "*">>)
  /\ ~Occurs(s, <<"\\">>)
  /\ ~Occurs(s, <<"<", "<">>)

RECURSIVE ContentLines(_, _)
ContentLines(s, p) ==
  IF p >= Len(s) THEN 0
  ELSE LET e     == RunEnd(s, p, PlusNot({"\n", "\r"}))
           first == RunEnd(s, p, Plus({" ", "\t"}))
           next  == IF e < Len(s) THEN MatchRe(re_NEWLINE, s, e) ELSE e
       IN  (IF first < e /\ At(s, first) # "#" THEN 1 ELSE 0) + ContentLines(s, next)

C17_OneTokenPerLine ==
  (status = "returned" /\ PlainText(lexdata))
    => Cardinality({ i \in 1..Len(tokens) : tokens[i].type # "COMMENT" })
         = ContentLines(lexdata, 0)

(***************************************************************************)
(* C18.  A tokenize call that raises raises ApacheConfigError: the parser  *)
(* of option lines never fails with an error of another type.              *)
(***************************************************************************)
C18_TypedFailuresOnly ==
  status = "raised" => error.exc = "ApacheConfigError"

(***************************************************************************)
(* C19.  A tokenize call never returns normally with the lexer in          *)
(* multiline: an option line ending with a backslash at the end of the     *)
(* input is not dropped without a token and without an error.              *)
(***************************************************************************)
C19_PendingContinuationNotDropped ==
  status = "returned" => lexstate # "multiline"

(***************************************************************************)
(* C20.  In ccomment, multiline and heredoc some rule of the state matches *)
(* at every cursor position before the end of the text, so the error       *)
(* handlers of these states never run: an illegal-character error is       *)
(* raised in INITIAL only, with the message of INITIAL.                     *)
(***************************************************************************)
C20_StateErrorsUnreachable ==
  /\ (status = "scanning" /\ lexstate \in states /\ lexpos < Len(lexdata))
       => ~NoRuleMatches(lexstate, lexdata, lexpos)
  /\ error.exc = "ApacheConfigError"
       => lexstate = "INITIAL" /\ error.msg = ErrorMessage("INITIAL")

C20_NewlineMatchedInComment ==
  /\ lexstate = "ccomment"
  /\ lexmatch.rule = "t_ccomment_body"
  /\ At(lexdata, lexmatch.start) = "\n"
  /\ status = "scanning"

====
